---------------------------- MODULE Spec2Model ----------------------------
(***************************************************************************)
(* Hybrid retrieval and reranking of the chat backend                      *)
(* (src/backend/app/main.py): vector search, BM25 search, candidate        *)
(* fusion, local reranking and the /chat endpoint.                         *)
(*                                                                         *)
(* Representation.  The text of a chunk is the sequence of its code        *)
(* points (97 is "a", 32 the blank), so that slicing (text[:64]) and       *)
(* splitting are computed; urls and titles, which the code only compares,  *)
(* are strings.  Python None                                               *)
(* is the value None below; a float score is an integer (only the order    *)
(* of scores is used by the code).  A dict a request creates carries the   *)
(* identity of the object in the field obj: <<"req", r>> for a dict        *)
(* created by request r, <<"doc", i>> for the module-level dict docs[i].   *)
(* The optional key rerank_score is Absent before the reranker sets it     *)
(* and <<s>> once it holds s.                                              *)
(***************************************************************************)
EXTENDS Integers, Sequences, FiniteSets, TLC

VARIABLES
    docs,            \* module-level list of corpus records (main.py:30)
    corpus,          \* module-level list of texts (main.py:31)
    tokenized,       \* module-level list of token lists (main.py:32)
    pc,              \* per request: where the /chat handler stands
    req_k,           \* per request: ChatRequest.k
    vec_call,        \* per request: outcome of qdrant.search
    predict_call,    \* per request: outcome of reranker_model.predict
    llm_call,        \* per request: outcome of the completion call
    candidates,      \* per request: local `candidates` of chat
    top_ctx,         \* per request: local `top_ctx` of chat
    sources,         \* per request: local `sources` of chat
    writes,          \* every item assignment requests performed: who, on which object
    call,            \* a single function call under study: its arguments
    ret              \* ... and its return value

vars == <<docs, corpus, tokenized, pc, req_k, vec_call, predict_call, llm_call,
          candidates, top_ctx, sources, writes, call, ret>>

----------------------------------------------------------------------------
(* Bounds of the model *)

MaxK == 6          \* largest k of a studied call
MaxVecLen == 8     \* longest vector result list of a studied merge
MaxBmLen == 6      \* longest BM25 result list of a studied merge
PoolLen == 20      \* size of the pool candidates are drawn from
MaxShort == 2      \* longest exhaustively enumerated result list
NDocs == 4         \* largest corpus
MaxScore == 2      \* scores range over 0..MaxScore
MaxCands == 4      \* longest candidate list of a studied rerank
MaxTopN == 5       \* largest top_n of a studied rerank
MaxCtx == 7        \* longest reranked list of a studied source collection
NumReq == 2        \* concurrent /chat requests

(* Program constants *)

PrefixLen == 64            \* r["text"][:64]
MinCap == 10               \* max(k * 2, 10)
TopN == 6                  \* top_n=6, reranked[:6]

None == "<None>"
Absent == <<>>

Min(a, b) == IF a < b THEN a ELSE b
Max(a, b) == IF a > b THEN a ELSE b

----------------------------------------------------------------------------
(* Python built-ins the code uses *)

\* s[:n]
SliceTo(s, n) ==
    IF n >= 0 THEN SubSeq(s, 1, Min(n, Len(s)))
    ELSE SubSeq(s, 1, Max(Len(s) + n, 0))

\* bool(x) of an optional string
Truthy(x) == x # None /\ x # ""

\* a or b
Or(a, b) == IF Truthy(a) THEN a ELSE b

\* str.isspace of one code point: the characters s.split() cuts at
\* (\t \n \v \f \r, FS GS RS US, the blank, NEL, NBSP and the Unicode
\* spaces and separators)
IsSpace(c) ==
    c \in (9..13) \cup (28..32) \cup {133, 160, 5760} \cup (8192..8202)
           \cup {8232, 8233, 8239, 8287, 12288}

RECURSIVE SplitFrom(_, _, _, _)
SplitFrom(s, i, cur, acc) ==
    IF i > Len(s) THEN (IF cur = <<>> THEN acc ELSE Append(acc, cur))
    ELSE IF IsSpace(s[i])
         THEN SplitFrom(s, i + 1, <<>>, IF cur = <<>> THEN acc ELSE Append(acc, cur))
         ELSE SplitFrom(s, i + 1, Append(cur, s[i]), acc)

\* s.split()
Split(s) == SplitFrom(s, 1, <<>>, <<>>)

\* Stable insertion of x into a list sorted by descending key: after every
\* element whose key is >= x's (sorted(..., reverse=True) keeps the input
\* order of equal keys).
RECURSIVE InsertDesc(_, _, _)
InsertDesc(sorted, x, i) ==
    IF i > Len(sorted) THEN Append(sorted, x)
    ELSE IF sorted[i][2] < x[2]
         THEN SubSeq(sorted, 1, i - 1) \o <<x>> \o SubSeq(sorted, i, Len(sorted))
         ELSE InsertDesc(sorted, x, i + 1)

RECURSIVE SortDescFrom(_, _, _)
SortDescFrom(pairs, i, sorted) ==
    IF i > Len(pairs) THEN sorted
    ELSE SortDescFrom(pairs, i + 1, InsertDesc(sorted, pairs[i], 1))

\* sorted(pairs, key=lambda x: x[1], reverse=True), pairs being <<item, key>>
SortedDesc(pairs) == SortDescFrom(pairs, 1, <<>>)

\* A descending sort that puts equal keys in reverse input order, as
\* sorted(pairs, key=...)[::-1] would
RECURSIVE InsertDescTiesFirst(_, _, _)
InsertDescTiesFirst(sorted, x, i) ==
    IF i > Len(sorted) THEN Append(sorted, x)
    ELSE IF sorted[i][2] <= x[2]
         THEN SubSeq(sorted, 1, i - 1) \o <<x>> \o SubSeq(sorted, i, Len(sorted))
         ELSE InsertDescTiesFirst(sorted, x, i + 1)

RECURSIVE SortTiesReversedFrom(_, _, _)
SortTiesReversedFrom(pairs, i, sorted) ==
    IF i > Len(pairs) THEN sorted
    ELSE SortTiesReversedFrom(pairs, i + 1, InsertDescTiesFirst(sorted, pairs[i], 1))

SortedTiesReversed(pairs) == SortTiesReversedFrom(pairs, 1, <<>>)

----------------------------------------------------------------------------
(* The data the studied calls and requests are fed with *)

Letters == <<97, 98, 99, 100>>
Urls == <<"u1", None, "", "u2">>

\* Texts: a 64-character prefix decided by j % 4 and a tail decided by
\* j % 3, so that different texts share their first 64 characters; every
\* fifth text is short.  The third character is a blank, the sixth a
\* carriage return or a letter, the ninth a no-break space or a letter.
TextLen(j) == IF j % 5 = 4 THEN 2 ELSE PrefixLen + 1
TextOf(j) ==
    [i \in 1..TextLen(j) |->
        IF i = 3 THEN 32
        ELSE IF i = 6 /\ j % 2 = 0 THEN 13
        ELSE IF i = 9 /\ j % 4 = 1 THEN 160
        ELSE IF i <= PrefixLen THEN Letters[(j % 4) + 1]
        ELSE Letters[(j % 3) + 1]]
UrlOf(j) == Urls[((j \div 4) % 4) + 1]
TitleOf(j) == IF j % 2 = 0 THEN None ELSE "t"

\* A hit of the vector store: payload (None, or a dict whose keys may be
\* missing) and score.
HitOf(j) ==
    [has_payload |-> j % 11 # 10,
     has_text |-> j % 7 # 6,
     text |-> TextOf(j), url |-> UrlOf(j), title |-> TitleOf(j),
     score |-> j % (MaxScore + 1)]

\* A record of bm25_corpus.jsonl
DocOf(j) ==
    [text |-> TextOf(j),
     metadata |-> [url |-> UrlOf(j),
                   source_path |-> IF j % 3 = 0 THEN None ELSE "p",
                   title |-> TitleOf(j)],
     rerank_score |-> Absent]

CorpusOf(n) == [i \in 1..n |-> DocOf(i)]

\* n consecutive elements of a cyclic pool, from start
Window(start, n) == [i \in 1..n |-> ((start + i - 2) % PoolLen) + 1]

Starts == {s \in 1..PoolLen : s % 4 = 1}

ScoreVectors(n) == [1..n -> 0..MaxScore]

----------------------------------------------------------------------------
(* The functions of main.py *)

\* vector_search, from the hits qdrant.search returned, called by request r
vector_search(r, hits) ==
    [i \in 1..Len(hits) |->
        LET h == hits[i] IN
        [text |-> IF h.has_payload /\ h.has_text THEN h.text ELSE <<>>,
         url |-> IF h.has_payload THEN h.url ELSE None,
         title |-> IF h.has_payload THEN h.title ELSE None,
         score |-> h.score,
         source |-> "vector",
         rerank_score |-> Absent,
         obj |-> <<"req", r>>]]

\* Variant: sorted(range(len(scores)), key=lambda i: scores[i])[::-1]
RankedIdxTiesReversed(scores) ==
    SortedTiesReversed([i \in 1..Len(scores) |-> <<i, scores[i]>>])

\* sorted(range(len(scores)), key=lambda i: scores[i], reverse=True)
RankedIdx(scores) == SortedDesc([i \in 1..Len(scores) |-> <<i, scores[i]>>])

\* Variant: bm25_search appends the corpus dict docs[i] itself
Bm25ResultShared(r, ds, scores, i) ==
    [text |-> ds[i].text,
     url |-> Or(ds[i].metadata.url, ds[i].metadata.source_path),
     title |-> ds[i].metadata.title,
     score |-> scores[i],
     source |-> "bm25",
     rerank_score |-> ds[i].rerank_score,
     obj |-> <<"doc", i>>]

\* The result dict bm25_search builds for corpus index i
Bm25Result(r, ds, scores, i) ==
    [text |-> ds[i].text,
     url |-> Or(ds[i].metadata.url, ds[i].metadata.source_path),
     title |-> ds[i].metadata.title,
     score |-> scores[i],
     source |-> "bm25",
     rerank_score |-> Absent,
     obj |-> <<"req", r>>]

\* bm25_search over the module-level docs ds, from the scores
\* bm25.get_scores returned, called by request r
bm25_search(r, ds, scores, k) ==
    LET top_idx == SliceTo(RankedIdx(scores), k)
    IN  [j \in 1..Len(top_idx) |-> Bm25Result(r, ds, scores, top_idx[j][1])]

\* Variant: key = (r["text"], r.get("url"))
KeyFullText(r) == <<r.text, r.url>>

\* key = (r["text"][:64], r.get("url"))
Key(r) == <<SliceTo(r.text, PrefixLen), r.url>>

RECURSIVE DedupFrom(_, _, _, _)
DedupFrom(combined, i, seen, unique) ==
    IF i > Len(combined) THEN unique
    ELSE LET r == combined[i]
             key == Key(r)
         IN  IF key \in seen
             THEN DedupFrom(combined, i + 1, seen, unique)
             ELSE DedupFrom(combined, i + 1, seen \cup {key}, Append(unique, r))

\* Variant: the loop without seen.add(key)
DedupSeenNeverFilled(combined) == combined

\* The loop of hybrid_retrieve
Dedup(combined) == DedupFrom(combined, 1, {}, <<>>)

\* Variant: return unique
hybrid_retrieve_uncapped(vec_results, bm25_results, k) ==
    Dedup(vec_results \o bm25_results)

\* hybrid_retrieve, from the two result lists
hybrid_retrieve(vec_results, bm25_results, k) ==
    LET combined == vec_results \o bm25_results
        unique == Dedup(combined)
    IN  SliceTo(unique, Max(k * 2, MinCap))

\* rerank_locally after its guard: main.py:109-116
RerankBody(docs_in, predict, top_n) ==
    IF ~predict.ok
    THEN [raised |-> TRUE, value |-> <<>>, predict_called |-> TRUE,
          docs_in |-> docs_in]
    ELSE LET scores == predict.scores
             ranked == SortedDesc([i \in 1..Len(docs_in) |-> <<i, scores[i]>>])
             top == SliceTo(ranked, top_n)
             Set(d, s) == [d EXCEPT !.rerank_score = <<s>>]
         IN  [raised |-> FALSE,
              value |-> [j \in 1..Len(top) |->
                            Set(docs_in[top[j][1]], top[j][2])],
              predict_called |-> TRUE,
              docs_in |-> [i \in 1..Len(docs_in) |->
                              IF \E j \in 1..Len(top) : top[j][1] = i
                              THEN Set(docs_in[i], scores[i])
                              ELSE docs_in[i]]]

\* Variant: rerank_locally without `if not docs_in: return []`
rerank_locally_unguarded(docs_in, predict, top_n) ==
    RerankBody(docs_in, predict, top_n)

\* Variant: rerank_locally scoring and sorting docs_in[:top_n] only
rerank_locally_cut_first(docs_in, predict, top_n) ==
    IF docs_in = <<>>
    THEN [raised |-> FALSE, value |-> <<>>, predict_called |-> FALSE,
          docs_in |-> docs_in]
    ELSE RerankBody(SliceTo(docs_in, top_n), predict, top_n)

\* rerank_locally.  predict is what reranker_model.predict does if it is
\* called: [ok |-> FALSE] when it raises, [ok |-> TRUE, scores |-> ...]
\* otherwise.  zip(docs_in, scores) pairs a reference with a score; the
\* reference to docs_in[i] is i.  The answer tells whether an exception
\* left the function, the returned list, whether predict was called, and
\* docs_in as the loop's item assignments left it.
rerank_locally(docs_in, predict, top_n) ==
    IF docs_in = <<>>
    THEN [raised |-> FALSE, value |-> <<>>, predict_called |-> FALSE,
          docs_in |-> docs_in]
    ELSE RerankBody(docs_in, predict, top_n)

RECURSIVE FromKeysFrom(_, _, _)
FromKeysFrom(xs, i, acc) ==
    IF i > Len(xs) THEN acc
    ELSE IF \E j \in 1..Len(acc) : acc[j] = xs[i]
         THEN FromKeysFrom(xs, i + 1, acc)
         ELSE FromKeysFrom(xs, i + 1, Append(acc, xs[i]))

\* list(dict.fromkeys(xs))
FromKeys(xs) == FromKeysFrom(xs, 1, <<>>)

\* Variant: [c.get("url") for c in top_ctx if c.get("url") is not None]
UrlsOfNotNone(ctx) ==
    LET F[i \in 0..Len(ctx)] ==
            IF i = 0 THEN <<>>
            ELSE IF ctx[i].url # None THEN Append(F[i - 1], ctx[i].url)
            ELSE F[i - 1]
    IN  F[Len(ctx)]

\* [c.get("url") for c in top_ctx if c.get("url")]
UrlsOf(ctx) ==
    LET F[i \in 0..Len(ctx)] ==
            IF i = 0 THEN <<>>
            ELSE IF Truthy(ctx[i].url) THEN Append(F[i - 1], ctx[i].url)
            ELSE F[i - 1]
    IN  F[Len(ctx)]

\* sources = list(dict.fromkeys([c.get("url") for c in top_ctx if c.get("url")]))
CollectSources(ctx) == FromKeys(UrlsOf(ctx))

----------------------------------------------------------------------------
(* State shared by the specifications *)

Reqs == 1..NumReq

NoCall == [fn |-> "none"]
NoRet == [done |-> FALSE]

\* The module-level statements of main.py:29-32 on a corpus file ds
Startup(ds) ==
    /\ docs = ds
    /\ corpus = [i \in 1..Len(ds) |-> ds[i].text]
    /\ tokenized = [i \in 1..Len(ds) |-> Split(ds[i].text)]

NoRequests ==
    /\ pc = [r \in Reqs |-> "idle"]
    /\ req_k = [r \in Reqs |-> 0]
    /\ vec_call = [r \in Reqs |-> "not_called"]
    /\ predict_call = [r \in Reqs |-> "not_called"]
    /\ llm_call = [r \in Reqs |-> "not_called"]
    /\ candidates = [r \in Reqs |-> <<>>]
    /\ top_ctx = [r \in Reqs |-> <<>>]
    /\ sources = [r \in Reqs |-> <<>>]
    /\ writes = {}

procVars == <<docs, corpus, tokenized>>
reqVars == <<pc, req_k, vec_call, predict_call, llm_call, candidates, top_ctx,
             sources, writes>>

----------------------------------------------------------------------------
(* hybrid_retrieve studied as a function of its two result lists *)

VecCand(j) == vector_search(1, <<HitOf(j)>>)[1]
PoolDocs == CorpusOf(PoolLen)
PoolScores == [i \in 1..PoolLen |-> i % (MaxScore + 1)]
BmCand(j) == Bm25Result(1, PoolDocs, PoolScores, j)

\* Per source, two candidates under one key (two scores, two texts) and one
\* under another; the first key is common to the two sources
ShortVec == {VecCand(1), VecCand(17), VecCand(2)}
ShortBm == {BmCand(1), BmCand(17), BmCand(3)}

\* The result lists are windows of the pool, or any short list over a
\* few candidates
InitMerge ==
    /\ Startup(CorpusOf(NDocs))
    /\ NoRequests
    /\ \E k \in 1..MaxK :
        \/ \E s \in Starts, n \in 0..MaxVecLen, t \in Starts, m \in 0..MaxBmLen :
              call = [fn |-> "hybrid_retrieve",
                      vec |-> [i \in 1..n |-> VecCand(Window(s, n)[i])],
                      bm |-> [i \in 1..m |-> BmCand(Window(t, m)[i])],
                      k |-> k]
        \/ \E n \in 0..MaxShort, m \in 0..MaxShort :
              \E v \in [1..n -> ShortVec], b \in [1..m -> ShortBm] :
                 call = [fn |-> "hybrid_retrieve", vec |-> v, bm |-> b, k |-> k]
    /\ ret = NoRet

CallMerge ==
    /\ ~ret.done
    /\ ret' = [done |-> TRUE, value |-> hybrid_retrieve(call.vec, call.bm, call.k)]
    /\ UNCHANGED <<procVars, reqVars, call>>

NextMerge == CallMerge

SpecMerge == InitMerge /\ [][NextMerge]_vars


----------------------------------------------------------------------------
(* rerank_locally studied as a function of its candidate list, of what    *)
(* predict answers and of top_n                                            *)

\* A candidate list as hybrid_retrieve returns one: distinct keys, both sources
FusedList(n) == [i \in 1..n |-> IF i % 2 = 1 THEN VecCand(i) ELSE BmCand(i + 4)]

InitRerank ==
    /\ Startup(CorpusOf(NDocs))
    /\ NoRequests
    /\ \E n \in 0..MaxCands :
        \/ \E sc \in ScoreVectors(n), t \in 0..MaxTopN :
              call = [fn |-> "rerank_locally", docs_in |-> FusedList(n),
                      predict |-> [ok |-> TRUE, scores |-> sc], top_n |-> t]
        \/ call = [fn |-> "rerank_locally", docs_in |-> FusedList(n),
                   predict |-> [ok |-> FALSE, scores |-> <<>>], top_n |-> TopN]
    /\ ret = NoRet

CallRerank ==
    /\ ~ret.done
    /\ ret' = [done |-> TRUE,
               value |-> rerank_locally(call.docs_in, call.predict, call.top_n)]
    /\ UNCHANGED <<procVars, reqVars, call>>

NextRerank == CallRerank

SpecRerank == InitRerank /\ [][NextRerank]_vars

----------------------------------------------------------------------------
(* bm25_search studied as a function of the corpus, of the scores          *)
(* bm25.get_scores answers and of k                                        *)

InitBm25 ==
    /\ \E n \in 1..NDocs :
        /\ Startup(CorpusOf(n))
        /\ \E sc \in ScoreVectors(n), k \in 1..MaxK :
              call = [fn |-> "bm25_search", scores |-> sc, k |-> k]
    /\ NoRequests
    /\ ret = NoRet

CallBm25 ==
    /\ ~ret.done
    /\ ret' = [done |-> TRUE, value |-> bm25_search(1, docs, call.scores, call.k)]
    /\ UNCHANGED <<procVars, reqVars, call>>

NextBm25 == CallBm25

SpecBm25 == InitBm25 /\ [][NextBm25]_vars

----------------------------------------------------------------------------
(* The end of chat (main.py:161-166) studied as a function of the reranked *)
(* list                                                                    *)

\* top_ctx = reranked[:6]; sources = ...; the answer is the collaborator's
chat_tail(reranked) ==
    LET ctx == SliceTo(reranked, TopN)
    IN  [top_ctx |-> ctx, sources |-> CollectSources(ctx)]

CtxOf(u, i) == [VecCand(4) EXCEPT !.url = u, !.rerank_score = <<MaxCtx - i>>]

InitSources ==
    /\ Startup(CorpusOf(NDocs))
    /\ NoRequests
    /\ \E n \in 0..MaxCtx : \E us \in [1..n -> {Urls[i] : i \in 1..Len(Urls)}] :
          call = [fn |-> "chat_tail", reranked |-> [i \in 1..n |-> CtxOf(us[i], i)]]
    /\ ret = NoRet

CallChatTail ==
    /\ ~ret.done
    /\ ret' = [done |-> TRUE, value |-> chat_tail(call.reranked)]
    /\ UNCHANGED <<procVars, reqVars, call>>

NextSources == CallChatTail

SpecSources == InitSources /\ [][NextSources]_vars

----------------------------------------------------------------------------
(* The /chat endpoint under concurrent requests.  A request is cut at its  *)
(* calls to the collaborators: the vector store, the rerank model and the  *)
(* completion service; what happens between two of them is one step.       *)

\* The k of a request: none asked for, or one
ReqKs == {0, 1}

\* What the collaborators may answer to a request
VecResponses(k) ==
    {[i \in 1..n |-> HitOf(i)] : n \in 0..Max(k, 0)}

SmallScoreVecs(n) ==
    {[i \in 1..n |-> 0], [i \in 1..n |-> i % (MaxScore + 1)]}

PredictOutcomes(n) ==
    {[ok |-> FALSE, scores |-> <<>>]}
    \cup {[ok |-> TRUE, scores |-> sc] : sc \in SmallScoreVecs(n)}

Init ==
    /\ Startup(CorpusOf(NDocs))
    /\ NoRequests
    /\ call = NoCall
    /\ ret = NoRet

\* chat is entered with a ChatRequest (k is any int: the model has no validator)
Receive(r) ==
    /\ pc[r] = "idle"
    /\ \E k \in ReqKs : req_k' = [req_k EXCEPT ![r] = k]
    /\ pc' = [pc EXCEPT ![r] = "retrieve"]
    /\ UNCHANGED <<procVars, vec_call, predict_call, llm_call, candidates,
                   top_ctx, sources, writes, call, ret>>

\* qdrant.search raises: nothing in vector_search, hybrid_retrieve or chat
\* catches it, and the exception leaves chat
VectorSearchFails(r) ==
    /\ pc[r] = "retrieve"
    /\ vec_call' = [vec_call EXCEPT ![r] = "error"]
    /\ pc' = [pc EXCEPT ![r] = "fault"]
    /\ UNCHANGED <<procVars, req_k, predict_call, llm_call, candidates,
                   top_ctx, sources, writes, call, ret>>

\* embed_model.encode raises in embed_query, before qdrant.search is
\* called: nothing catches it, and the exception leaves chat
EmbedFails(r) ==
    /\ pc[r] = "retrieve"
    /\ pc' = [pc EXCEPT ![r] = "fault"]
    /\ UNCHANGED <<procVars, req_k, vec_call, predict_call, llm_call, candidates,
                   top_ctx, sources, writes, call, ret>>

\* candidates = hybrid_retrieve(req.query, k=req.k), the vector store answering
Retrieve(r) ==
    /\ pc[r] = "retrieve"
    /\ \E hits \in VecResponses(req_k[r]), scores \in SmallScoreVecs(Len(docs)) :
          candidates' = [candidates EXCEPT ![r] =
              hybrid_retrieve(vector_search(r, hits),
                              bm25_search(r, docs, scores, req_k[r]),
                              req_k[r])]
    /\ vec_call' = [vec_call EXCEPT ![r] = "ok"]
    /\ pc' = [pc EXCEPT ![r] = "rerank"]
    /\ UNCHANGED <<procVars, req_k, predict_call, llm_call, top_ctx, sources,
                   writes, call, ret>>

\* The module-level docs after the item assignments d["rerank_score"] = s on
\* the dicts of `written`: a dict that is docs[i] itself changes docs[i]
DocsAfter(ds, written) ==
    [i \in 1..Len(ds) |->
        LET hit == {j \in 1..Len(written) : written[j].obj = <<"doc", i>>}
        IN  IF hit = {} THEN ds[i]
            ELSE LET last == CHOOSE j \in hit : \A j2 \in hit : j2 <= j
                 IN  [ds[i] EXCEPT !.rerank_score = written[last].rerank_score]]

\* reranked = rerank_locally(req.query, candidates, top_n=6);
\* top_ctx = reranked[:6].  An exception of predict leaves chat.
Rerank(r) ==
    /\ pc[r] = "rerank"
    /\ \E predict \in PredictOutcomes(Len(candidates[r])) :
        LET res == rerank_locally(candidates[r], predict, TopN) IN
        /\ predict_call' = [predict_call EXCEPT ![r] =
              IF ~res.predict_called THEN "not_called"
              ELSE IF res.raised THEN "error" ELSE "ok"]
        /\ pc' = [pc EXCEPT ![r] = IF res.raised THEN "fault" ELSE "answer"]
        /\ candidates' = [candidates EXCEPT ![r] = res.docs_in]
        /\ top_ctx' = [top_ctx EXCEPT ![r] = chat_tail(res.value).top_ctx]
        /\ writes' = writes \cup
              {[by |-> r, obj |-> res.value[j].obj] : j \in 1..Len(res.value)}
        /\ docs' = DocsAfter(docs, res.value)
    /\ UNCHANGED <<corpus, tokenized, req_k, vec_call, llm_call, sources, call, ret>>

\* answer = generate_answer(...) returns; sources are collected and the
\* response is returned
Answer(r) ==
    /\ pc[r] = "answer"
    /\ llm_call' = [llm_call EXCEPT ![r] = "ok"]
    /\ sources' = [sources EXCEPT ![r] = chat_tail(top_ctx[r]).sources]
    /\ pc' = [pc EXCEPT ![r] = "done"]
    /\ UNCHANGED <<procVars, req_k, vec_call, predict_call, candidates, top_ctx,
                   writes, call, ret>>

\* The completion call raises: the exception leaves chat
AnswerFails(r) ==
    /\ pc[r] = "answer"
    /\ llm_call' = [llm_call EXCEPT ![r] = "error"]
    /\ pc' = [pc EXCEPT ![r] = "fault"]
    /\ UNCHANGED <<procVars, req_k, vec_call, predict_call, candidates, top_ctx,
                   sources, writes, call, ret>>

Next ==
    \E r \in Reqs :
        \/ Receive(r)
        \/ EmbedFails(r)
        \/ VectorSearchFails(r)
        \/ Retrieve(r)
        \/ Rerank(r)
        \/ Answer(r)
        \/ AnswerFails(r)

Spec == Init /\ [][Next]_vars

----------------------------------------------------------------------------
(* Claims about hybrid_retrieve (SpecMerge) *)

MergeDone == call.fn = "hybrid_retrieve" /\ ret.done
Combined == call.vec \o call.bm
KeyOf(c) == <<SubSeq(c.text, 1, IF Len(c.text) < 64 THEN Len(c.text) ELSE 64), c.url>>
KeysOf(cs) == {KeyOf(cs[i]) : i \in 1..Len(cs)}
FirstWith(cs, key) == CHOOSE j \in 1..Len(cs) :
    /\ KeyOf(cs[j]) = key
    /\ \A j2 \in 1..(j - 1) : KeyOf(cs[j2]) # key
CapOf(k) == IF 2 * k >= 10 THEN 2 * k ELSE 10

\* C1: for every k >= 1 and every pair of result lists, the list
\* hybrid_retrieve returns has at most max(2k, 10) elements.
C1_FusionBound ==
    MergeDone => Len(ret.value) <= CapOf(call.k)

\* A merge of more than max(2k, 10) distinct keys, with 2k > 10: the cap cut it
C1_Witness ==
    /\ MergeDone
    /\ 2 * call.k > 10
    /\ Cardinality(KeysOf(Combined)) > CapOf(call.k)
    /\ Len(ret.value) = CapOf(call.k)

\* C2: no two returned candidates share the key (text[:64], url); the
\* candidate kept for a key is the earliest one with that key in vector
\* results followed by BM25 results, whatever its score or source; the kept
\* candidates appear in the order of that concatenation.
C2_DedupKeepsFirst ==
    MergeDone =>
        LET out == ret.value IN
        /\ \A i, j \in 1..Len(out) : i # j => KeyOf(out[i]) # KeyOf(out[j])
        /\ \A i \in 1..Len(out) :
              /\ KeyOf(out[i]) \in KeysOf(Combined)
              /\ out[i] = Combined[FirstWith(Combined, KeyOf(out[i]))]
        /\ \A i, j \in 1..Len(out) :
              i < j => FirstWith(Combined, KeyOf(out[i]))
                          < FirstWith(Combined, KeyOf(out[j]))

\* Two candidates under one key, the later one from the other source, with
\* another text and a higher score: the earlier one is returned, the later
\* one is not
C2_Witness ==
    /\ MergeDone
    /\ \E i, j \in 1..Len(Combined) :
          /\ i < j
          /\ KeyOf(Combined[i]) = KeyOf(Combined[j])
          /\ Combined[i].source # Combined[j].source
          /\ Combined[i].text # Combined[j].text
          /\ Combined[i].score < Combined[j].score
          /\ \E p \in 1..Len(ret.value) : ret.value[p] = Combined[i]
          /\ \A p \in 1..Len(ret.value) : ret.value[p] # Combined[j]

\* C3: the merge step applied to its own output, with the same k, yields
\* that output again, whichever side the output is given as (or both).
C3_MergeIdempotent ==
    MergeDone =>
        /\ hybrid_retrieve(ret.value, <<>>, call.k) = ret.value
        /\ hybrid_retrieve(<<>>, ret.value, call.k) = ret.value
        /\ hybrid_retrieve(ret.value, ret.value, call.k) = ret.value

\* A merge that dropped duplicates and was cut by the cap, and still has
\* several elements
C3_Witness ==
    /\ MergeDone
    /\ Len(ret.value) >= 2
    /\ Cardinality(KeysOf(Combined)) < Len(Combined)
    /\ Len(ret.value) < Cardinality(KeysOf(Combined))

----------------------------------------------------------------------------
(* Claims about rerank_locally (SpecRerank) and bm25_search (SpecBm25) *)

\* Position of index i in the stable descending order of scores
RankOf(scores, i) ==
    1 + Cardinality({j \in 1..Len(scores) :
            \/ scores[j] > scores[i]
            \/ scores[j] = scores[i] /\ j < i})

RerankDone ==
    /\ call.fn = "rerank_locally" /\ ret.done
    /\ call.docs_in # <<>> /\ call.predict.ok

\* C4: for a non-empty candidate list and top_n >= 0, rerank_locally
\* returns the first min(top_n, len) elements of the stable descending sort
\* of all candidates by model score, each carrying its score as
\* rerank_score: non-increasing scores, at most top_n elements, equal
\* scores in input order, no omitted candidate scoring strictly higher than
\* a returned one.
C4_RerankGlobalTopN ==
    RerankDone =>
        LET out == ret.value.value
            n == Len(call.docs_in)
            sc == call.predict.scores
        IN  /\ ~ret.value.raised
            /\ Len(out) = (IF call.top_n < n THEN call.top_n ELSE n)
            /\ Len(out) <= call.top_n
            /\ \A p \in 1..Len(out) : \E i \in 1..n :
                  /\ RankOf(sc, i) = p
                  /\ out[p].rerank_score = <<sc[i]>>
                  /\ [out[p] EXCEPT !.rerank_score = Absent] = call.docs_in[i]
            /\ \A p, q \in 1..Len(out) :
                  p < q => out[p].rerank_score[1] >= out[q].rerank_score[1]
            /\ \A i \in 1..n :
                  (\A p \in 1..Len(out) :
                        [out[p] EXCEPT !.rerank_score = Absent] # call.docs_in[i])
                  => \A p \in 1..Len(out) : sc[i] <= out[p].rerank_score[1]

\* A list cut by top_n where the best candidate is last in the input and
\* two equal scores straddle the cut
C4_Witness ==
    /\ RerankDone
    /\ LET n == Len(call.docs_in)
           sc == call.predict.scores
       IN  /\ call.top_n = 2 /\ n >= 4
           /\ \A i \in 1..(n - 1) : sc[n] > sc[i]
           /\ sc[1] = sc[2]
           /\ Len(ret.value.value) = 2
           /\ ret.value.value[2].text = call.docs_in[1].text

Bm25Done == call.fn = "bm25_search" /\ ret.done

\* C8: for every score vector over N documents and every k >= 1,
\* bm25_search returns the min(k, N) best documents in descending score
\* order, equal scores in corpus order (lower index first), within the
\* result and at the cut.
C8_Bm25TopK ==
    Bm25Done =>
        LET out == ret.value
            n == Len(docs)
            sc == call.scores
        IN  /\ Len(out) = (IF call.k < n THEN call.k ELSE n)
            /\ \A p \in 1..Len(out) : \E i \in 1..n :
                  /\ RankOf(sc, i) = p
                  /\ out[p].text = docs[i].text
                  /\ out[p].score = sc[i]
                  /\ out[p].source = "bm25"

\* Three documents with one score, cut at two: the first two in corpus order
C8_Witness ==
    /\ Bm25Done
    /\ Len(docs) >= 3 /\ call.k = 2
    /\ call.scores[1] = call.scores[2] /\ call.scores[2] = call.scores[3]
    /\ \A i \in 1..Len(docs) : call.scores[i] <= call.scores[1]
    /\ Len(ret.value) = 2
    /\ ret.value[1].text = docs[1].text /\ ret.value[2].text = docs[2].text

----------------------------------------------------------------------------
(* Claim about the collected sources (SpecSources) *)

SourcesDone == call.fn = "chat_tail" /\ ret.done
NonEmptyUrl(u) == u # "<None>" /\ u # ""

\* C9: the url list of a response holds exactly the distinct non-empty
\* urls of the returned contexts, each once, in the order of their first
\* occurrence among the contexts; a context with a missing or empty url
\* contributes nothing.
C9_SourcesDistinctOrdered ==
    SourcesDone =>
        LET ctx == ret.value.top_ctx
            out == ret.value.sources
            First(u) == CHOOSE i \in 1..Len(ctx) :
                /\ ctx[i].url = u
                /\ \A j \in 1..(i - 1) : ctx[j].url # u
        IN  /\ {out[i] : i \in 1..Len(out)}
                  = {ctx[i].url : i \in {j \in 1..Len(ctx) : NonEmptyUrl(ctx[j].url)}}
            /\ \A i, j \in 1..Len(out) : i # j => out[i] # out[j]
            /\ \A i, j \in 1..Len(out) : i < j => First(out[i]) < First(out[j])

\* Contexts u2, None, u1, "", u2, u1 give the sources u2, u1
C9_Witness ==
    /\ SourcesDone
    /\ Len(ret.value.top_ctx) = 6
    /\ [i \in 1..6 |-> ret.value.top_ctx[i].url]
          = <<"u2", "<None>", "u1", "", "u2", "u1">>
    /\ ret.value.sources = <<"u2", "u1">>

----------------------------------------------------------------------------
(* Claims about the /chat endpoint (Spec) *)

\* C5: a request whose two searches gave no candidate goes on without an
\* error of the retrieval steps: the rerank model is not called, the ranked
\* list is empty, and the response carries an empty url list.
C5_EmptyRetrieval ==
    \A r \in Reqs :
        (vec_call[r] = "ok" /\ candidates[r] = <<>>) =>
            /\ predict_call[r] = "not_called"
            /\ top_ctx[r] = <<>>
            /\ pc[r] = "fault" => llm_call[r] = "error"
            /\ pc[r] = "done" => sources[r] = <<>>

\* A request with k = 0 that answered with no candidate
C5_Witness ==
    \E r \in Reqs :
        /\ pc[r] = "done" /\ vec_call[r] = "ok" /\ req_k[r] = 0
        /\ candidates[r] = <<>> /\ top_ctx[r] = <<>> /\ sources[r] = <<>>
        /\ predict_call[r] = "not_called"

\* The fused candidates by descending source score, cut to n
BySourceScore(cs, n) ==
    LET ranked == SortedDesc([i \in 1..Len(cs) |-> <<i, cs[i].score>>])
    IN  [j \in 1..(IF n < Len(cs) THEN n ELSE Len(cs)) |-> cs[ranked[j][1]]]

\* C6: when the batched scoring call fails the request does not fail: it
\* goes on with the fused candidates cut to top_n by source score.
C6_RerankFailureFallsBack ==
    \A r \in Reqs :
        predict_call[r] = "error" =>
            /\ pc[r] # "fault"
            /\ pc[r] \in {"answer", "done"} =>
                    top_ctx[r] = BySourceScore(candidates[r], 6)

\* C7: when the vector-store query fails, the failure does not leave the
\* request as an unhandled fault: the request goes on with the BM25
\* candidates alone, or ends with a typed retrieval failure.
C7_VectorFailureContained ==
    \A r \in Reqs :
        vec_call[r] = "error" =>
            \/ /\ pc[r] \in {"rerank", "answer", "done"}
               /\ \A i \in 1..Len(candidates[r]) : candidates[r][i].source = "bm25"
            \/ pc[r] = "retrieval_failure"

\* The corpus file of Init, and its texts, each cut at whitespace and
\* nowhere else: the tokens hold no whitespace, and joined by the cut
\* characters they give the text again
LoadedDocs == [i \in 1..NDocs |-> DocOf(i)]
LoadedTokens ==
    [i \in 1..NDocs |->
        LET t == LoadedDocs[i].text
            kept == {p \in 1..Len(t) : t[p] \notin
                        {9, 10, 11, 12, 13, 28, 29, 30, 31, 32, 133, 160,
                         5760, 8192, 8193, 8194, 8195, 8196, 8197, 8198,
                         8199, 8200, 8201, 8202, 8232, 8233, 8239, 8287, 12288}}
            starts == {p \in kept : p - 1 \notin kept}
            EndOf(p) == CHOOSE q \in kept :
                            /\ q >= p /\ q + 1 \notin kept
                            /\ \A m \in p..q : m \in kept
            Nth[n \in 1..Cardinality(starts)] ==
                CHOOSE p \in starts : Cardinality({p2 \in starts : p2 < p}) = n - 1
        IN  [n \in 1..Cardinality(starts) |-> SubSeq(t, Nth[n], EndOf(Nth[n]))]]

\* C10: under any interleaving of requests the state loaded at startup
\* (docs, corpus, tokenized) is as it was loaded; every item assignment of a
\* request is on a dict that request created; the candidates a request
\* retrieves carry no rerank_score of another request.
C10_SharedStateImmutable ==
    /\ docs = LoadedDocs
    /\ corpus = [i \in 1..NDocs |-> LoadedDocs[i].text]
    /\ tokenized = LoadedTokens
    /\ \A w \in writes : w.obj = <<"req", w.by>>
    /\ \A r \in Reqs : pc[r] = "rerank" =>
          \A i \in 1..Len(candidates[r]) : candidates[r][i].rerank_score = <<>>

\* One request has set rerank_score on a BM25 candidate of its own while
\* another, which retrieved the same document, still waits for its scores
C10_Witness ==
    \E r1, r2 \in Reqs :
        /\ r1 # r2
        /\ pc[r1] = "done" /\ pc[r2] = "rerank"
        /\ [by |-> r1, obj |-> <<"req", r1>>] \in writes
        /\ \E i \in 1..Len(top_ctx[r1]), j \in 1..Len(candidates[r2]) :
              /\ top_ctx[r1][i].source = "bm25"
              /\ top_ctx[r1][i].rerank_score # <<>>
              /\ candidates[r2][j].source = "bm25"
              /\ candidates[r2][j].text = top_ctx[r1][i].text

============================================================================
